---------------------------- MODULE Spec2Model ----------------------------
(***************************************************************************)
(* Model of the website generation orchestrator (WebsiteGeneratorManager,  *)
(* assets/js/websiteGenerator.js), of the streaming client                 *)
(* (APIService.generateWebsite / updateWebsite, assets/js/services/api.js),*)
(* of the visual editor wrapper (GrapesJSEditor, assets/js/editor.js) and  *)
(* of the two update managers (WebsiteUpdater and WebsiteUpdaterManager,   *)
(* both versions of websiteUpdater.js).                                    *)
(*                                                                         *)
(* The specifications share the variables (SpecLive and SpecProgLive are   *)
(* Spec and SpecProg with the fairness their liveness properties need):    *)
(*   Spec     the generator of the current build, from construction;       *)
(*   SpecUpd  the WebsiteUpdater of the earlier build, from the state a    *)
(*            completed generation leaves behind;                          *)
(*   SpecWum  the WebsiteUpdaterManager of the current build, from a       *)
(*            constructed generator with or without a generated website;   *)
(*   SpecSse  the reader loop of APIService.generateWebsite over a         *)
(*            response body delivered in chunks of any size;               *)
(*   SpecProg the progress animation: the timer of animateProgressTo and   *)
(*            the handlers that set its target or reset it.                *)
(*                                                                         *)
(* Representation.  A JavaScript page mapping {name: page} is a function   *)
(* from PageNames to Htmls \cup {"absent"}; the values null / undefined    *)
(* of a mapping are the function NullPages.  Other null / undefined        *)
(* values are the string "none".  Strings read from the DOM are tokens    *)
(* whose trimmed length is given by TrimLen.  currentProgress counts      *)
(* quarters of a percent (the smallest step of the timer is 0.25);         *)
(* targetProgress is in percent.  jinjaTemplates is a page mapping as      *)
(* well; jinjaShared tells that it is the very object generatedPages       *)
(* refers to (`data.jinja_pages || data.pages` without jinja_pages), so    *)
(* that a write into one is a write into the other.  requestPages is the   *)
(* page payload of the update request in flight and pendingBase the        *)
(* payload pendingUpdate was computed from.                                *)
(***************************************************************************)
EXTENDS Integers, Sequences, FiniteSets, TLC

\* ------------------------------------------------------------------ bounds
MaxCalls == 2       \* generation / update requests in flight at once
MaxMsgs == 3        \* length of conversationMessages up to which a message is appended
MaxHistory == 2     \* length of updateHistory up to which applies are explored
MaxLines == 3       \* lines of a response body

\* ------------------------------------------------------- program constants
MinDescriptionLen == 10
MinAnswerLen == 5
MinEditRequestLen == 5

\* ------------------------------------------------------------ input tokens
PageNames == {"home", "about"}
Htmls == {"old", "new", "tpl", "rendered"}

\* trimmed length of the strings the handlers read
TrimLen(s) ==
    CASE s = "" -> 0
      [] s = "hi" -> 2
      [] s = "  hi   " -> 2
      [] s = "  diner   " -> 5
      [] s = "$5-10" -> 5
      [] s = "Follow up" -> 9
      [] s = "bigger logo" -> 11
      [] s = "mid-range, $5-10" -> 16
      [] s = "ready to generate" -> 17
      [] s = "make the heading bold" -> 21
      [] s = "A bakery in Lisbon selling sourdough" -> 36
      [] OTHER -> 0

Descriptions == {"", "  diner   ", "A bakery in Lisbon selling sourdough"}
Answers == {"hi", "$5-10", "mid-range, $5-10"}
EditRequests == {"hi", "  hi   ", "make the heading bold"}
Feedbacks == {"", "bigger logo"}

ThreadIds == {"t1", "t2"}

Human(c) == [type |-> "human", role |-> "none", content |-> c]
Ai(c) == [type |-> "ai", role |-> "none", content |-> c]
User(c) == [type |-> "none", role |-> "user", content |-> c]
Assistant(c) == [type |-> "none", role |-> "assistant", content |-> c]

\* message lists an interrupt event may carry (an absent list is <<>>, see
\* `event.messages || []`)
EvMessages == {<<>>, <<Human("desc"), Ai("q1")>>}

NullPages == [p \in PageNames |-> "null"]
EmptyPages == [p \in PageNames |-> "absent"]
IsNullPages(m) == m = NullPages
Keys(m) == {p \in PageNames : m[p] \in Htmls}
PageOf(m, p) == IF m[p] \in Htmls THEN m[p] ELSE "absent"

\* { ...a, ...b }
Spread(a, b) ==
    [p \in PageNames |-> IF b[p] \in Htmls THEN b[p] ELSE PageOf(a, p)]

\* payloads of the final event (data); NoData is a final event without data
Data1 == [present |-> TRUE,
          pages |-> [p \in PageNames |-> IF p = "home" THEN "old" ELSE "absent"],
          jinja_pages |-> [p \in PageNames |-> IF p = "home" THEN "tpl" ELSE "absent"],
          image_urls |-> "img1", plan |-> "plan1",
          folder_path |-> "dir1", saved_files |-> "files1"]
Data2 == [present |-> TRUE,
          pages |-> [p \in PageNames |-> "old"],
          jinja_pages |-> NullPages,
          image_urls |-> "img2", plan |-> "plan2",
          folder_path |-> "none", saved_files |-> "none"]
NoData == [present |-> FALSE, pages |-> NullPages, jinja_pages |-> NullPages,
           image_urls |-> "none",
           plan |-> "none", folder_path |-> "none", saved_files |-> "none"]
DataSet == {Data1, Data2, NoData}

\* responses of POST /api/update-website: updated_pages may be missing
\* (NullPages) or empty, updated_global_css may be missing ("none")
UpdateResults ==
    {[updated_pages |-> up, updated_global_css |-> css, changes_summary |-> "Bolded heading"] :
        up \in {NullPages, EmptyPages,
                [p \in PageNames |-> IF p = "home" THEN "new" ELSE "absent"],
                [p \in PageNames |-> IF p = "about" THEN "new" ELSE "absent"]},
        css \in {"none", "css1"}}

Entries == {"panel", "tab"}

\* step reports of the modelled server; the catalogue is progressMapping
EvSteps == {<<"in_progress", "image_generation">>, <<"completed", "planning">>}

Origins == {"start", "approval"}

VARIABLES
    \* WebsiteGeneratorManager
    isGenerating, currentThreadId, conversationMessages, isAwaitingInput,
    generatedPages, generatedImageUrls, generatedPlan, folderPath, savedFiles,
    jinjaTemplates, jinjaShared,
    currentProgress, targetProgress, progressInterval,
    questions,
    \* the page: generateWebsiteBtn.disabled, and whether the clarification
    \* section and the plan approval section are displayed
    generateBtnDisabled, clarificationShown, approvalShown,
    globalCss,
    \* requests of APIService.generateWebsite in flight
    genCalls,
    \* GrapesJSEditor
    edState, edStyle, currentPages, isMultiPageMode,
    \* WebsiteUpdater
    isUpdating, pendingUpdate, updateHistory, wuCalls, requestPages, pendingBase,
    \* WebsiteUpdaterManager
    wumIsUpdating, wumCalls,
    \* the reader loop of APIService.generateWebsite: the bytes of the response
    \* body, how many of them reader.read() has returned, the line buffer, the
    \* records passed to onProgress, and where the loop stands
    streamBytes, bytesRead, buffer, delivered, readerState,
    \* the handler that ran last, its outcome and its input
    lastOp

convVars == <<currentThreadId, conversationMessages, isAwaitingInput, questions>>
artVars == <<generatedPages, generatedImageUrls, generatedPlan, folderPath, savedFiles>>
tplVars == <<jinjaTemplates, jinjaShared>>
progVars == <<currentProgress, targetProgress, progressInterval>>
netVars == <<genCalls>>
edVars == <<edState, edStyle, currentPages, isMultiPageMode>>
wuVars == <<isUpdating, pendingUpdate, updateHistory, wuCalls, requestPages, pendingBase>>
wumVars == <<wumIsUpdating, wumCalls>>
uiVars == <<generateBtnDisabled, clarificationShown, approvalShown>>
genVars == <<isGenerating, convVars, artVars, tplVars, progVars, netVars, uiVars>>
sseVars == <<streamBytes, bytesRead, buffer, delivered, readerState>>
vars == <<genVars, globalCss, edVars, wuVars, wumVars, sseVars, lastOp>>

\* stream events (StreamEvent records of handleStreamEvent)
Event(st, sp, r, t, m, q, d) ==
    [status |-> st, step |-> sp, ready |-> r, thread_id |-> t, messages |-> m,
     questions |-> q, data |-> d]
Events ==
    {Event("awaiting_input", "business_gathering", r, t, m, "q1", NoData) :
        r \in {"false", "none"}, t \in ThreadIds, m \in EvMessages}
    \cup {Event("awaiting_approval", "planning", "none", t, m, "none", NoData) :
        t \in ThreadIds, m \in EvMessages}
    \cup {Event(e[1], e[2], "none", "none", <<>>, "none", NoData) : e \in EvSteps}
    \cup {Event("completed", "complete", "none", "none", <<>>, "none", d) : d \in DataSet}
    \cup {Event("failed", "planning", "none", "none", <<>>, "none", NoData)}

NoRequest == [description |-> "none", thread_id |-> "none", messages |-> <<>>]

\* the record of the handler that ran last: its name, its outcome, its input
\* (for a stream event the ready flag, the step or the plan of the data and
\* the thread id, for an update request the edit request) and the payload of
\* the generation request it issued (NoRequest when it issued none)
Op(name, result, input, tid) ==
    [op |-> name, res |-> result, arg |-> input, tid |-> tid, req |-> NoRequest]
Did(name, result) == Op(name, result, "none", "none")
Sent(name, request) ==
    [op |-> name, res |-> "sent", arg |-> "none", tid |-> "none", req |-> request]

\* the value null of pendingUpdate
NullUpdate == [updated_pages |-> NullPages, updated_global_css |-> "none",
               changes_summary |-> "null"]

\* no page payload: no update request has been built
NoPagesRead == [index |-> "absent", pages |-> EmptyPages]

\* number of generation requests in flight
InFlight == genCalls["start"].fetch + genCalls["start"].stream
            + genCalls["approval"].fetch + genCalls["approval"].stream

\* ---------------------------------------------------------------- Init
\* state after `new GrapesJSEditor()` and `new WebsiteGeneratorManager(editor)`
\* no response body is being read
readerIdle ==
    /\ streamBytes = <<>>
    /\ bytesRead = 0
    /\ buffer = <<>>
    /\ delivered = <<>>
    /\ readerState = "idle"

\* the managers as their constructors leave them
Constructed ==
    /\ isGenerating = FALSE
    /\ currentThreadId = "none"
    /\ conversationMessages = <<>>
    /\ isAwaitingInput = FALSE
    /\ generatedPages = NullPages
    /\ generatedImageUrls = "none"
    /\ generatedPlan = "none"
    /\ folderPath = "none"
    /\ savedFiles = "none"
    /\ jinjaTemplates = NullPages
    /\ jinjaShared = FALSE
    /\ currentProgress = 0
    /\ targetProgress = 0
    /\ progressInterval = "none"
    /\ questions = "none"
    /\ generateBtnDisabled = FALSE
    /\ clarificationShown = FALSE
    /\ approvalShown = FALSE
    /\ globalCss = "none"
    /\ genCalls = [o \in Origins |-> [fetch |-> 0, stream |-> 0]]
    /\ edState = "none"
    /\ edStyle = "none"
    /\ currentPages = EmptyPages
    /\ isMultiPageMode = FALSE
    /\ isUpdating = FALSE
    /\ pendingUpdate = NullUpdate
    /\ updateHistory = <<>>
    /\ wuCalls = [e \in Entries |-> 0]
    /\ requestPages = NoPagesRead
    /\ pendingBase = NoPagesRead
    /\ wumIsUpdating = FALSE
    /\ wumCalls = 0
    /\ lastOp = Did("constructor", "ok")

Init == Constructed /\ readerIdle

\* ------------------------------------------------- WebsiteGeneratorManager
chatPhases == {"business_gathering", "planning"}
progressPhases == {"image_description", "image_generation", "html_generation",
                   "html_validation", "file_storage"}
progressMapping ==
    [s \in {"business_gathering", "planning", "image_description", "image_generation",
            "html_generation", "html_validation", "file_storage", "complete"} |->
        CASE s = "business_gathering" -> [start |-> 5, end |-> 10]
          [] s = "planning" -> [start |-> 10, end |-> 25]
          [] s = "image_description" -> [start |-> 25, end |-> 35]
          [] s = "image_generation" -> [start |-> 35, end |-> 60]
          [] s = "html_generation" -> [start |-> 60, end |-> 80]
          [] s = "html_validation" -> [start |-> 80, end |-> 90]
          [] s = "file_storage" -> [start |-> 90, end |-> 95]
          [] s = "complete" -> [start |-> 95, end |-> 100]]

\* showGenerationUI: disables the generate button, resets the progress values
\* and stops the timer
showGenerationUI ==
    /\ generateBtnDisabled' = TRUE
    /\ currentProgress' = 0
    /\ targetProgress' = 0
    /\ progressInterval' = "none"

\* animateProgressTo(targetPercent, fast): sets the target and (re)starts the timer
animateProgressTo(targetPercent, fast) ==
    /\ targetProgress' = targetPercent
    /\ progressInterval' = IF fast THEN "fast" ELSE "normal"
    /\ UNCHANGED currentProgress

\* stopProgressAnimation
stopProgressAnimation ==
    /\ progressInterval' = "none"
    /\ UNCHANGED <<currentProgress, targetProgress>>

\* handleGenerationError: alerts, enables the generate button and drops the
\* pages and the image urls
handleGenerationError ==
    /\ generateBtnDisabled' = FALSE
    /\ generatedPages' = NullPages
    /\ generatedImageUrls' = "none"
    /\ jinjaShared' = FALSE
    /\ UNCHANGED <<generatedPlan, folderPath, savedFiles, jinjaTemplates>>

generateWebsiteValidMutant(description) == TRUE

\* the check of APIService.generateWebsite before any request is built
generateWebsiteValid(description) == TrimLen(description) >= MinDescriptionLen

generateWebsiteTwice(name, origin, description, threadId, messages) ==
    /\ genCalls' = [genCalls EXCEPT ![origin].fetch = @ + 2]
    /\ lastOp' = Sent(name, [description |-> description, thread_id |-> threadId,
                             messages |-> messages])

\* APIService.generateWebsite, up to the fetch: the payload carries thread_id
\* when it is truthy and the message list; the call is then in flight
generateWebsite(name, origin, description, threadId, messages) ==
    /\ genCalls' = [genCalls EXCEPT ![origin].fetch = @ + 1]
    /\ lastOp' = Sent(name, [description |-> description, thread_id |-> threadId,
                             messages |-> messages])

startIsBusyMutant == FALSE

\* the guard `if (this.isGenerating) return`
startIsBusy == isGenerating

neverResetsContext(isFollowUp) == FALSE

alwaysResetsContext(isFollowUp) == TRUE

\* `if (!isFollowUp)`: a new generation resets the conversation state
resetsContext(isFollowUp) == ~isFollowUp

\* startWebsiteGeneration(isFollowUp), reading `description` from the page;
\* `name` is the entry point that called it and `shown` tells whether the
\* clarification section is displayed when it is called
startWebsiteGeneration(description, isFollowUp, name, shown) ==
    IF TrimLen(description) < MinDescriptionLen
    THEN /\ lastOp' = Did(name, "invalid")
         /\ clarificationShown' = shown
         /\ UNCHANGED <<isGenerating, convVars, artVars, tplVars, progVars, netVars,
                        generateBtnDisabled, approvalShown,
                        globalCss, edVars, wuVars, wumVars>>
    ELSE IF startIsBusy
    THEN /\ lastOp' = Did(name, "busy")
         /\ clarificationShown' = shown
         /\ UNCHANGED <<isGenerating, convVars, artVars, tplVars, progVars, netVars,
                        generateBtnDisabled, approvalShown,
                        globalCss, edVars, wuVars, wumVars>>
    ELSE /\ InFlight < MaxCalls
         /\ isGenerating' = TRUE
         /\ IF ~resetsContext(isFollowUp)
            THEN /\ clarificationShown' = shown
                 /\ UNCHANGED <<currentThreadId, conversationMessages, isAwaitingInput>>
            ELSE /\ currentThreadId' = "none"
                 /\ conversationMessages' = <<>>
                 /\ isAwaitingInput' = FALSE
                 /\ clarificationShown' = FALSE
         /\ showGenerationUI
         /\ generateWebsite(name, "start", description, currentThreadId',
                            conversationMessages')
         /\ UNCHANGED <<questions, artVars, tplVars, approvalShown, globalCss, edVars, wuVars,
                        wumVars>>

\* click on generateWebsiteBtn, which is possible while it is not disabled
ClickGenerate ==
    /\ ~generateBtnDisabled
    /\ \E d \in Descriptions :
          startWebsiteGeneration(d, FALSE, "startWebsiteGeneration", clarificationShown)

\* submitAnswer (click on submitAnswerBtn in the clarification section): the
\* answer becomes the description, the section is hidden and generation
\* continues
submitAnswer ==
    /\ clarificationShown
    /\ \E answer \in Answers :
        IF TrimLen(answer) < MinAnswerLen
        THEN /\ lastOp' = Did("submitAnswer", "invalid")
             /\ UNCHANGED <<genVars, globalCss, edVars, wuVars, wumVars>>
        ELSE startWebsiteGeneration(answer, TRUE, "submitAnswer", FALSE)

\* handleReadyToGenerate
handleReadyToGenerate ==
    \E d \in Descriptions :
        IF TrimLen(d) < MinDescriptionLen
        THEN /\ lastOp' = Did("handleReadyToGenerate", "invalid")
             /\ UNCHANGED <<genVars, globalCss, edVars, wuVars, wumVars>>
        ELSE IF isAwaitingInput
             THEN startWebsiteGeneration("ready to generate", TRUE,
                                         "handleReadyToGenerate", FALSE)
             ELSE startWebsiteGeneration(d, FALSE, "handleReadyToGenerate",
                                         clarificationShown)

withUserMessageMutant(messages, text) == <<User(text)>>

\* this.conversationMessages.push({ role: 'user', content: responseText })
withUserMessage(messages, text) == Append(messages, User(text))

\* submitPlanApproval(approved, feedback); the description is read from the
\* page (`value || "Follow up"`)
submitPlanApproval(approved, feedback) ==
    \E d \in Descriptions :
        LET responseText == IF approved THEN "Approve" ELSE feedback
            description == IF d = "" THEN "Follow up" ELSE d
            messages == withUserMessage(conversationMessages, responseText)
        IN  /\ Len(conversationMessages) < MaxMsgs
            /\ InFlight < MaxCalls
            /\ approvalShown' = FALSE
            /\ conversationMessages' = messages
            /\ IF generateWebsiteValid(description)
               THEN /\ showGenerationUI
                    /\ generateWebsite("submitPlanApproval", "approval", description,
                                       currentThreadId, messages)
                    /\ UNCHANGED <<artVars, tplVars>>
               ELSE \* showGenerationUI, then the catch of the failed call
                    /\ currentProgress' = 0
                    /\ targetProgress' = 0
                    /\ progressInterval' = "none"
                    /\ handleGenerationError
                    /\ UNCHANGED netVars
                    /\ lastOp' = Did("submitPlanApproval", "error")
            /\ UNCHANGED <<isGenerating, currentThreadId, isAwaitingInput, questions,
                           clarificationShown, globalCss, edVars, wuVars, wumVars>>

\* click on approvePlanBtn in the plan approval section
ClickApprove == approvalShown /\ submitPlanApproval(TRUE, "none")

\* click on submitRevisionBtn in the plan approval section: empty feedback
\* only alerts
ClickSubmitRevision ==
    /\ approvalShown
    /\ \E feedback \in Feedbacks :
        IF TrimLen(feedback) > 0
        THEN submitPlanApproval(FALSE, feedback)
        ELSE /\ lastOp' = Did("submitRevision", "invalid")
             /\ UNCHANGED <<genVars, globalCss, edVars, wuVars, wumVars>>

\* clearBusinessChat (click on clearBusinessChatBtn in the clarification
\* section)
clearBusinessChat ==
    /\ clarificationShown
    /\ clarificationShown' = FALSE
    /\ currentThreadId' = "none"
    /\ conversationMessages' = <<>>
    /\ isAwaitingInput' = FALSE
    /\ questions' = "none"
    /\ lastOp' = Did("clearBusinessChat", "ok")
    /\ UNCHANGED <<isGenerating, artVars, tplVars, progVars, netVars, generateBtnDisabled,
                   approvalShown, globalCss, edVars, wuVars, wumVars>>

\* the normalisation of handlePlanApproval: LangChain tags to roles
NormalizeMessage(msg) ==
    IF msg.type = "human" THEN User(msg.content)
    ELSE IF msg.type = "ai" THEN Assistant(msg.content)
    ELSE IF msg.role # "none" THEN msg
    ELSE Assistant(msg.content)

NormalizeMessages(msgs) == [i \in 1..Len(msgs) |-> NormalizeMessage(msgs[i])]

\* handleAwaitingInput(event)
handleAwaitingInput(event) ==
    /\ currentThreadId' = event.thread_id
    /\ conversationMessages' = event.messages
    /\ isAwaitingInput' = TRUE
    /\ stopProgressAnimation
    /\ questions' = event.questions
    /\ clarificationShown' = TRUE
    /\ generateBtnDisabled' = FALSE
    /\ UNCHANGED <<artVars, tplVars, edVars, approvalShown>>

\* handlePlanApproval(event)
handlePlanApproval(event) ==
    /\ currentThreadId' = event.thread_id
    /\ conversationMessages' = NormalizeMessages(event.messages)
    /\ isAwaitingInput' = TRUE
    /\ stopProgressAnimation
    /\ approvalShown' = TRUE
    /\ UNCHANGED <<questions, artVars, tplVars, edVars, generateBtnDisabled, clarificationShown>>

\* initializeMultiPageGrapesJS via displayMultiPageEditor(pages): the editor
\* is destroyed and a new one is being created; nothing happens without pages
displayMultiPageEditor(pages) ==
    IF IsNullPages(pages)
    THEN UNCHANGED edVars
    ELSE /\ edState' = "creating"
         /\ edStyle' = "generated"
         /\ UNCHANGED <<currentPages, isMultiPageMode>>

\* `data.jinja_pages || data.pages`
jinjaOf(data) == IF IsNullPages(data.jinja_pages) THEN data.pages ELSE data.jinja_pages

onGenerationCompleteMutant(data) ==
    IF data.present
    THEN /\ generatedPages' = data.pages
         /\ generatedImageUrls' = generatedImageUrls
         /\ generatedPlan' = data.plan
         /\ folderPath' = data.folder_path
         /\ savedFiles' = data.saved_files
         /\ jinjaTemplates' = jinjaOf(data)
         /\ jinjaShared' = IsNullPages(data.jinja_pages)
         /\ displayMultiPageEditor(data.pages)
         /\ generateBtnDisabled' = FALSE
    ELSE UNCHANGED <<artVars, tplVars, edVars, generateBtnDisabled>>

\* onGenerationComplete(data); without data the first statement throws
onGenerationComplete(data) ==
    IF data.present
    THEN /\ generatedPages' = data.pages
         /\ generatedImageUrls' = data.image_urls
         /\ generatedPlan' = data.plan
         /\ folderPath' = data.folder_path
         /\ savedFiles' = data.saved_files
         /\ jinjaTemplates' = jinjaOf(data)
         /\ jinjaShared' = IsNullPages(data.jinja_pages)
         /\ displayMultiPageEditor(data.pages)
         /\ generateBtnDisabled' = FALSE
    ELSE UNCHANGED <<artVars, tplVars, edVars, generateBtnDisabled>>

\* the condition under which handleStreamEvent treats an event as a
\* clarification interrupt
isClarification(event) == event.status = "awaiting_input" /\ event.ready = "false"

\* handleStreamEvent(event)
handleStreamEvent(event) ==
    IF isClarification(event) THEN handleAwaitingInput(event)
    ELSE IF event.status = "awaiting_approval" THEN handlePlanApproval(event)
    ELSE IF event.status = "in_progress"
    THEN /\ IF event.step \in progressPhases
            THEN animateProgressTo(progressMapping[event.step].start, FALSE)
            ELSE UNCHANGED progVars
         /\ UNCHANGED <<convVars, artVars, tplVars, edVars, uiVars>>
    ELSE IF event.status = "completed" /\ event.step = "complete"
    THEN /\ animateProgressTo(100, TRUE)
         /\ onGenerationComplete(event.data)
         /\ UNCHANGED <<convVars, clarificationShown, approvalShown>>
    ELSE IF event.status = "failed"
    THEN /\ stopProgressAnimation
         /\ handleGenerationError
         /\ UNCHANGED <<convVars, edVars, clarificationShown, approvalShown>>
    ELSE IF event.status = "completed"
    THEN /\ IF event.step \in progressPhases
            THEN animateProgressTo(progressMapping[event.step].end, FALSE)
            ELSE UNCHANGED progVars
         /\ UNCHANGED <<convVars, artVars, tplVars, edVars, uiVars>>
    ELSE UNCHANGED <<convVars, artVars, tplVars, progVars, edVars, uiVars>>

\* ------------------------------------------------------- applySelectedData
\* values of the data file dropdown ('' when nothing is selected)
DataFiles == {"", "menu.json"}

\* templateRenderer.render(template, data): a Jinja template is rendered with
\* the data; html without template variables renders to itself
render(template, data) == IF template = "tpl" THEN "rendered" ELSE template

\* templateRenderer.renderPages(pages, data); a page whose rendering throws
\* keeps its template as html
renderPages(pages, data, nunjucksOk) ==
    [p \in PageNames |->
        IF pages[p] \notin Htmls THEN "absent"
        ELSE IF nunjucksOk THEN render(pages[p], data) ELSE pages[p]]

\* applySelectedData(): the templates are read after the data file has been
\* loaded; a failed load is caught and alerted
applySelectedData ==
    \E selectedFile \in DataFiles, loaded \in BOOLEAN, nunjucksOk \in BOOLEAN :
        IF selectedFile = ""
        THEN /\ lastOp' = Did("applySelectedData", "nofile")
             /\ UNCHANGED <<genVars, globalCss, edVars, wuVars, wumVars>>
        ELSE IF IsNullPages(jinjaTemplates)
        THEN /\ lastOp' = Did("applySelectedData", "notemplates")
             /\ UNCHANGED <<genVars, globalCss, edVars, wuVars, wumVars>>
        ELSE IF ~loaded
        THEN /\ lastOp' = Did("applySelectedData", "error")
             /\ UNCHANGED <<genVars, globalCss, edVars, wuVars, wumVars>>
        ELSE /\ generatedPages' = renderPages(jinjaTemplates, selectedFile, nunjucksOk)
             /\ jinjaShared' = FALSE
             /\ displayMultiPageEditor(generatedPages')
             /\ lastOp' = Op("applySelectedData", "rendered", selectedFile, "none")
             /\ UNCHANGED <<isGenerating, convVars, generatedImageUrls, generatedPlan,
                            folderPath, savedFiles, jinjaTemplates, progVars, netVars,
                            uiVars, globalCss, wuVars, wumVars>>

\* ------------------------------------- APIService.generateWebsite in flight
\* the response arrives with a success status: the stream is read
FetchOk(origin) ==
    /\ genCalls[origin].fetch > 0
    /\ genCalls' = [genCalls EXCEPT ![origin].fetch = @ - 1, ![origin].stream = @ + 1]
    /\ lastOp' = Did("fetch", "ok")
    /\ UNCHANGED <<isGenerating, convVars, artVars, tplVars, progVars, uiVars,
                   globalCss, edVars, wuVars, wumVars>>

callReturnsMutant(origin) == UNCHANGED isGenerating

\* what the caller does when its call returns: `finally { isGenerating = false }`
\* in startWebsiteGeneration, nothing in submitPlanApproval
callReturns(origin) ==
    isGenerating' = IF origin = "start" THEN FALSE ELSE isGenerating

\* fetch rejects or the status is not ok: generateWebsite throws, the caller
\* catches and calls handleGenerationError
FetchFails(origin) ==
    /\ genCalls[origin].fetch > 0
    /\ genCalls' = [genCalls EXCEPT ![origin].fetch = @ - 1]
    /\ handleGenerationError
    /\ callReturns(origin)
    /\ lastOp' = Did("fetch", "error")
    /\ UNCHANGED <<convVars, progVars, clarificationShown, approvalShown,
                   globalCss, edVars, wuVars, wumVars>>

\* one parsed `data: ` line is handed to onProgress; an exception of the
\* handler is caught by the try around JSON.parse and onProgress
StreamEvent(origin) ==
    /\ genCalls[origin].stream > 0
    /\ \E event \in Events :
          /\ handleStreamEvent(event)
          /\ lastOp' = Op("handleStreamEvent", event.status,
                       IF event.status = "awaiting_input" THEN event.ready
                       ELSE IF event.step = "complete"
                            THEN (IF event.data.present THEN event.data.plan ELSE "nodata")
                            ELSE event.step,
                       IF event.status \in {"awaiting_input", "awaiting_approval"}
                       THEN event.thread_id ELSE "none")
    /\ UNCHANGED <<isGenerating, netVars, globalCss, wuVars, wumVars>>

\* reader.read() reports done: generateWebsite returns
StreamEnd(origin) ==
    /\ genCalls[origin].stream > 0
    /\ genCalls' = [genCalls EXCEPT ![origin].stream = @ - 1]
    /\ callReturns(origin)
    /\ lastOp' = Did("stream", "end")
    /\ UNCHANGED <<convVars, artVars, tplVars, progVars, uiVars, globalCss, edVars,
                   wuVars, wumVars>>

\* reader.read() rejects: generateWebsite throws mid-stream
StreamError(origin) ==
    /\ genCalls[origin].stream > 0
    /\ genCalls' = [genCalls EXCEPT ![origin].stream = @ - 1]
    /\ handleGenerationError
    /\ callReturns(origin)
    /\ lastOp' = Did("stream", "error")
    /\ UNCHANGED <<convVars, progVars, clarificationShown, approvalShown,
                   globalCss, edVars, wuVars, wumVars>>

\* ------------------------------------------------------------ GrapesJSEditor
\* the onReady callback of the editor being created
EditorReady ==
    /\ edState = "creating"
    /\ edState' = "ready"
    /\ UNCHANGED edStyle
    /\ lastOp' = Did("onReady", "ok")
    /\ UNCHANGED <<genVars, globalCss, currentPages, isMultiPageMode, wuVars, wumVars>>

\* updateGlobalCss(newCss): without an editor instance nothing is changed;
\* in multi-page mode the style of every stored page is replaced as well (the
\* page tokens stand for the body content, which is kept)
updateGlobalCss(newCss) ==
    IF edState # "ready"
    THEN UNCHANGED edStyle
    ELSE edStyle' = newCss

\* updatePages(updatedPages): only pages the editor already stores are replaced
updatePages(updatedPages) ==
    currentPages' =
        [p \in PageNames |->
            IF updatedPages[p] \in Htmls /\ currentPages[p] \in Htmls
            THEN updatedPages[p] ELSE currentPages[p]]

\* getCSS(): '' without an editor instance, else the style of the editor
getCSS == IF edState = "ready" THEN edStyle ELSE "empty"

\* getCurrentPages(): the single page `index` built from the content of the
\* editor, or the stored pages in multi-page mode
getCurrentPages ==
    IF ~isMultiPageMode
    THEN [index |-> getCSS, pages |-> EmptyPages]
    ELSE [index |-> "absent", pages |-> currentPages]

\* Object.keys of a page payload
RequestKeys(r) == (IF r.index # "absent" THEN {"index"} ELSE {}) \cup Keys(r.pages)

\* getCurrentPages() returns a non-empty mapping: the single page `index`, or
\* the stored pages in multi-page mode
currentPagesNonEmpty == ~isMultiPageMode \/ Keys(currentPages) # {}

\* ------------------------------------------------------------ WebsiteUpdater
\* The handlers of the update managers are public methods and are modelled as
\* callable in every state.
sendName(entry) == IF entry = "panel" THEN "handleSendUpdate" ELSE "handleTabChatSend"
applyName(entry) == IF entry = "panel" THEN "applyPendingUpdate" ELSE "applyTabUpdate"
rejectName(entry) == IF entry = "panel" THEN "rejectPendingUpdate" ELSE "rejectTabUpdate"

wuInFlight == wuCalls["panel"] + wuCalls["tab"]

updateIsBusyMutant == FALSE

\* the guard `if (this.isUpdating) return`
updateIsBusy == isUpdating

\* handleSendUpdate / handleTabChatSend up to the await of updateWebsite
handleSendUpdate(entry) ==
    \E editRequest \in EditRequests :
        IF TrimLen(editRequest) < MinEditRequestLen
        THEN /\ lastOp' = Did(sendName(entry), "invalid")
             /\ UNCHANGED <<genVars, globalCss, edVars, wuVars, wumVars>>
        ELSE IF updateIsBusy
        THEN /\ lastOp' = Did(sendName(entry), "busy")
             /\ UNCHANGED <<genVars, globalCss, edVars, wuVars, wumVars>>
        ELSE IF ~currentPagesNonEmpty
        THEN \* updateWebsite throws before the request; finally resets the flag
             /\ isUpdating' = FALSE
             /\ lastOp' = Did(sendName(entry), "error")
             /\ UNCHANGED <<genVars, globalCss, edVars, pendingUpdate, updateHistory,
                            wuCalls, requestPages, pendingBase, wumVars>>
        ELSE /\ wuInFlight < MaxCalls
             /\ isUpdating' = TRUE
             /\ wuCalls' = [wuCalls EXCEPT ![entry] = @ + 1]
             /\ requestPages' = getCurrentPages
             /\ lastOp' = Op(sendName(entry), "sent", editRequest, "none")
             /\ UNCHANGED <<genVars, globalCss, edVars, pendingUpdate, updateHistory,
                            pendingBase, wumVars>>

\* the request resolves: the result becomes the pending update
UpdateResolves(entry) ==
    /\ wuCalls[entry] > 0
    /\ \E result \in UpdateResults : pendingUpdate' = result
    /\ pendingBase' = requestPages
    /\ isUpdating' = FALSE
    /\ wuCalls' = [wuCalls EXCEPT ![entry] = @ - 1]
    /\ lastOp' = Did(sendName(entry), "proposed")
    /\ UNCHANGED <<genVars, globalCss, edVars, updateHistory, requestPages, wumVars>>

\* the request rejects: only a message is shown
UpdateFails(entry) ==
    /\ wuCalls[entry] > 0
    /\ isUpdating' = FALSE
    /\ wuCalls' = [wuCalls EXCEPT ![entry] = @ - 1]
    /\ lastOp' = Did(sendName(entry), "failed")
    /\ UNCHANGED <<genVars, globalCss, edVars, pendingUpdate, updateHistory,
                   requestPages, pendingBase, wumVars>>

\* the new value of generatedPages in applyPendingUpdate / applyTabUpdate
mergeUpdatedPages(pages, updatedPages) ==
    IF IsNullPages(updatedPages) THEN pages ELSE Spread(pages, updatedPages)

noPendingUpdateMutant == FALSE

\* the guard `if (!this.pendingUpdate) return`
noPendingUpdate == pendingUpdate = NullUpdate

applyCatchFinally(entry) ==
    /\ lastOp' = Did(applyName(entry), "threw")
    /\ pendingUpdate' = NullUpdate
    /\ pendingBase' = NoPagesRead
    /\ UNCHANGED <<genVars, globalCss, edVars, isUpdating, updateHistory, wuCalls,
                   requestPages, wumVars>>

\* the catch block of applyPendingUpdate / applyTabUpdate, entered from the
\* first statement of the try block: an error message is shown
applyCatch(entry) ==
    /\ lastOp' = Did(applyName(entry), "threw")
    /\ UNCHANGED <<genVars, globalCss, edVars, wuVars, wumVars>>

applyPendingUpdateSaving(entry) ==
    IF noPendingUpdate
    THEN /\ lastOp' = Did(applyName(entry), "nopending")
         /\ UNCHANGED <<genVars, globalCss, edVars, wuVars, wumVars>>
    ELSE \E sdkThrows \in BOOLEAN :
        LET css == pendingUpdate.updated_global_css
            updatedPages == pendingUpdate.updated_pages
        IN  IF sdkThrows
            THEN /\ css # "none" /\ edState = "ready"
                 /\ applyCatch(entry)
            ELSE /\ Len(updateHistory) < MaxHistory
                 /\ IF css # "none" THEN updateGlobalCss(css) ELSE UNCHANGED edStyle
                 /\ IF ~IsNullPages(updatedPages)
                    THEN updatePages(updatedPages) ELSE UNCHANGED currentPages
                 /\ generatedPages' = mergeUpdatedPages(generatedPages, updatedPages)
                 /\ jinjaShared' = (jinjaShared /\ IsNullPages(updatedPages))
                 /\ updateHistory' = Append(updateHistory, pendingUpdate.changes_summary)
                 /\ pendingUpdate' = NullUpdate
                 /\ pendingBase' = NoPagesRead
                 /\ wuCalls' = [wuCalls EXCEPT ![entry] = @ + 1]
                 /\ lastOp' = Op(applyName(entry), "applied", css, "none")
                 /\ UNCHANGED <<isGenerating, convVars, generatedImageUrls, generatedPlan,
                                folderPath, savedFiles, jinjaTemplates, progVars, netVars,
                                uiVars, globalCss, edState, isMultiPageMode, isUpdating,
                                requestPages, wumVars>>

\* applyPendingUpdate / applyTabUpdate; setStyle of the editor SDK may throw.
\* The spread builds a new object for generatedPages.
applyPendingUpdate(entry) ==
    IF noPendingUpdate
    THEN /\ lastOp' = Did(applyName(entry), "nopending")
         /\ UNCHANGED <<genVars, globalCss, edVars, wuVars, wumVars>>
    ELSE \E sdkThrows \in BOOLEAN :
        LET css == pendingUpdate.updated_global_css
            updatedPages == pendingUpdate.updated_pages
        IN  IF sdkThrows
            THEN /\ css # "none" /\ edState = "ready"
                 /\ applyCatch(entry)
            ELSE /\ Len(updateHistory) < MaxHistory
                 /\ IF css # "none" THEN updateGlobalCss(css) ELSE UNCHANGED edStyle
                 /\ IF ~IsNullPages(updatedPages)
                    THEN updatePages(updatedPages) ELSE UNCHANGED currentPages
                 /\ generatedPages' = mergeUpdatedPages(generatedPages, updatedPages)
                 /\ jinjaShared' = (jinjaShared /\ IsNullPages(updatedPages))
                 /\ updateHistory' = Append(updateHistory, pendingUpdate.changes_summary)
                 /\ pendingUpdate' = NullUpdate
                 /\ pendingBase' = NoPagesRead
                 /\ lastOp' = Op(applyName(entry), "applied", css, "none")
                 /\ UNCHANGED <<isGenerating, convVars, generatedImageUrls, generatedPlan,
                                folderPath, savedFiles, jinjaTemplates, progVars, netVars,
                                uiVars, globalCss, edState, isMultiPageMode, isUpdating,
                                wuCalls, requestPages, wumVars>>

rejectPendingUpdateMutant(entry) ==
    /\ pendingUpdate # NullUpdate
    /\ pendingUpdate' = NullUpdate
    /\ pendingBase' = NoPagesRead
    /\ generatedPages' = mergeUpdatedPages(generatedPages, pendingUpdate.updated_pages)
    /\ UNCHANGED tplVars
    /\ lastOp' = Did(rejectName(entry), "rejected")
    /\ UNCHANGED <<isGenerating, convVars, generatedImageUrls, generatedPlan, folderPath,
                   savedFiles, progVars, netVars, uiVars, globalCss, edVars, isUpdating,
                   updateHistory, wuCalls, requestPages, wumVars>>

\* rejectPendingUpdate / rejectTabUpdate
rejectPendingUpdate(entry) ==
    IF noPendingUpdate
    THEN /\ lastOp' = Did(rejectName(entry), "nopending")
         /\ UNCHANGED <<genVars, globalCss, edVars, wuVars, wumVars>>
    ELSE /\ pendingUpdate' = NullUpdate
         /\ pendingBase' = NoPagesRead
         /\ lastOp' = Did(rejectName(entry), "rejected")
         /\ UNCHANGED <<genVars, globalCss, edVars, isUpdating, updateHistory, wuCalls,
                        requestPages, wumVars>>

\* ----------------------------------------------------- WebsiteUpdaterManager
\* _getCurrentPages(): the pages of the editor when it has any, else generatedPages
getCurrentPagesOfManager ==
    IF isMultiPageMode /\ Keys(currentPages) # {} THEN currentPages
    ELSE IF IsNullPages(generatedPages) THEN EmptyPages ELSE generatedPages

\* _handleSend up to the await of updateWebsite
handleSend ==
    \E text \in EditRequests :
        IF TrimLen(text) < MinEditRequestLen
        THEN /\ lastOp' = Did("_handleSend", "invalid")
             /\ UNCHANGED <<genVars, globalCss, edVars, wuVars, wumVars>>
        ELSE IF wumIsUpdating
        THEN /\ lastOp' = Did("_handleSend", "busy")
             /\ UNCHANGED <<genVars, globalCss, edVars, wuVars, wumVars>>
        ELSE IF Keys(getCurrentPagesOfManager) = {}
        THEN /\ lastOp' = Did("_handleSend", "nopages")
             /\ UNCHANGED <<genVars, globalCss, edVars, wuVars, wumVars>>
        ELSE /\ wumCalls < MaxCalls
             /\ wumIsUpdating' = TRUE
             /\ wumCalls' = wumCalls + 1
             /\ lastOp' = Op("_handleSend", "sent", text, "none")
             /\ UNCHANGED <<genVars, globalCss, edVars, wuVars>>

\* _applyUpdates(updatedPages, updatedGlobalCss): the pages are written into
\* the object generatedPages refers to, which jinjaTemplates may refer to too
applyUpdates(updatedPages, updatedGlobalCss) ==
    /\ generatedPages' = IF Keys(updatedPages) # {}
                         THEN Spread(generatedPages, updatedPages)
                         ELSE generatedPages
    /\ jinjaTemplates' = IF jinjaShared THEN generatedPages' ELSE jinjaTemplates
    /\ UNCHANGED jinjaShared
    /\ globalCss' = IF updatedGlobalCss # "none" THEN updatedGlobalCss ELSE globalCss
    /\ IF Keys(generatedPages') # {}
       THEN displayMultiPageEditor(generatedPages')
       ELSE UNCHANGED edVars

\* the request of _handleSend resolves: the result is applied at once
ManagerUpdateResolves ==
    /\ wumCalls > 0
    /\ \E result \in UpdateResults :
          applyUpdates(result.updated_pages, result.updated_global_css)
    /\ wumIsUpdating' = FALSE
    /\ wumCalls' = wumCalls - 1
    /\ lastOp' = Did("_handleSend", "proposed")
    /\ UNCHANGED <<isGenerating, convVars, generatedImageUrls, generatedPlan, folderPath,
                   savedFiles, progVars, netVars, uiVars, wuVars>>

\* the request of _handleSend rejects
ManagerUpdateFails ==
    /\ wumCalls > 0
    /\ wumIsUpdating' = FALSE
    /\ wumCalls' = wumCalls - 1
    /\ lastOp' = Did("_handleSend", "failed")
    /\ UNCHANGED <<genVars, globalCss, edVars, wuVars>>

\* --------------------------------------------------------- specifications
\* the state a generation that completed with `data` leaves behind once its
\* stream has ended (for NoData: the state after construction)
After(data) ==
    /\ isGenerating = FALSE
    /\ currentThreadId = "none"
    /\ conversationMessages = <<>>
    /\ isAwaitingInput = FALSE
    /\ generatedPages = data.pages
    /\ generatedImageUrls = data.image_urls
    /\ generatedPlan = data.plan
    /\ folderPath = data.folder_path
    /\ savedFiles = data.saved_files
    /\ jinjaTemplates = jinjaOf(data)
    /\ jinjaShared = (data.present /\ IsNullPages(data.jinja_pages))
    /\ currentProgress = 0
    /\ targetProgress = IF data.present THEN 100 ELSE 0
    /\ progressInterval = IF data.present THEN "fast" ELSE "none"
    /\ questions = "none"
    /\ generateBtnDisabled = FALSE
    /\ clarificationShown = FALSE
    /\ approvalShown = FALSE
    /\ globalCss = "none"
    /\ genCalls = [o \in Origins |-> [fetch |-> 0, stream |-> 0]]
    /\ edState = IF data.present THEN "creating" ELSE "none"
    /\ edStyle = IF data.present THEN "generated" ELSE "none"
    /\ currentPages = EmptyPages
    /\ isMultiPageMode = FALSE
    /\ isUpdating = FALSE
    /\ pendingUpdate = NullUpdate
    /\ updateHistory = <<>>
    /\ wuCalls = [e \in Entries |-> 0]
    /\ requestPages = NoPagesRead
    /\ pendingBase = NoPagesRead
    /\ wumIsUpdating = FALSE
    /\ wumCalls = 0
    /\ lastOp = IF data.present THEN Did("stream", "end") ELSE Did("constructor", "ok")
    /\ readerIdle

\* WebsiteUpdater is constructed by onGenerationComplete of the earlier build
InitUpd == \E data \in {Data1, Data2} : After(data)

NextUpd ==
    \/ \E entry \in Entries : handleSendUpdate(entry) /\ UNCHANGED sseVars
    \/ \E entry \in Entries : UpdateResolves(entry) /\ UNCHANGED sseVars
    \/ \E entry \in Entries : UpdateFails(entry) /\ UNCHANGED sseVars
    \/ \E entry \in Entries : applyPendingUpdate(entry) /\ UNCHANGED sseVars
    \/ \E entry \in Entries : rejectPendingUpdate(entry) /\ UNCHANGED sseVars
    \/ EditorReady /\ UNCHANGED sseVars

SpecUpd == InitUpd /\ [][NextUpd]_vars

\* WebsiteUpdaterManager is constructed with the generator
InitWum == \E data \in {NoData, Data1, Data2} : After(data)

NextWum ==
    \/ handleSend /\ UNCHANGED sseVars
    \/ ManagerUpdateResolves /\ UNCHANGED sseVars
    \/ ManagerUpdateFails /\ UNCHANGED sseVars
    \/ applySelectedData /\ UNCHANGED sseVars
    \/ EditorReady /\ UNCHANGED sseVars

SpecWum == InitWum /\ [][NextWum]_vars

\* the generator of the current build
Next ==
    \/ ClickGenerate /\ UNCHANGED sseVars
    \/ submitAnswer /\ UNCHANGED sseVars
    \/ handleReadyToGenerate /\ UNCHANGED sseVars
    \/ ClickApprove /\ UNCHANGED sseVars
    \/ ClickSubmitRevision /\ UNCHANGED sseVars
    \/ clearBusinessChat /\ UNCHANGED sseVars
    \/ \E origin \in Origins : FetchOk(origin) /\ UNCHANGED sseVars
    \/ \E origin \in Origins : FetchFails(origin) /\ UNCHANGED sseVars
    \/ \E origin \in Origins : StreamEvent(origin) /\ UNCHANGED sseVars
    \/ \E origin \in Origins : StreamEnd(origin) /\ UNCHANGED sseVars
    \/ \E origin \in Origins : StreamError(origin) /\ UNCHANGED sseVars
    \/ EditorReady /\ UNCHANGED sseVars

Spec == Init /\ [][Next]_vars

\* ------------------------------------------- the reader loop (SSE records)
\* Text is a sequence of one-character strings.

\* the prefix of a record line, 'data: '
DataPrefix == <<"d", "a", "t", "a", ":", " ">>

\* the lines a response body is made of: records with the payloads 1, 12 and
\* { (not JSON), a line without the blank after the colon, and the empty line
\* that separates records
Lines ==
    { DataPrefix \o <<"1">>, DataPrefix \o <<"1", "2">>, DataPrefix \o <<"{">>,
      <<"d", "a", "t", "a", ":", "1">>, <<>> }

RECURSIVE Join(_)
\* the lines, each followed by a newline
Join(ls) == IF ls = <<>> THEN <<>> ELSE ls[1] \o <<"\n">> \o Join(Tail(ls))

\* the response bodies: up to MaxLines lines, the last one with or without
\* its newline
Bodies ==
    LET LineSeqs == UNION { [1..n -> Lines] : n \in 1..MaxLines }
    IN  { Join(ls) : ls \in LineSeqs }
        \cup { Join(SubSeq(ls, 1, Len(ls) - 1)) \o ls[Len(ls)] : ls \in LineSeqs }

RECURSIVE split(_)
\* String.prototype.split('\n')
split(text) ==
    IF \A i \in 1..Len(text) : text[i] # "\n"
    THEN <<text>>
    ELSE LET k == CHOOSE i \in 1..Len(text) :
                      text[i] = "\n" /\ \A j \in 1..(i - 1) : text[j] # "\n"
         IN  <<SubSeq(text, 1, k - 1)>> \o split(SubSeq(text, k + 1, Len(text)))

\* String.prototype.startsWith
startsWith(text, prefix) ==
    Len(text) >= Len(prefix) /\ SubSeq(text, 1, Len(prefix)) = prefix

\* String.prototype.slice(n)
slice(text, n) == SubSeq(text, n + 1, Len(text))

RECURSIVE trim(_)
\* String.prototype.trim
trim(text) ==
    IF text = <<>> THEN <<>>
    ELSE IF text[1] \in {" ", "\n"} THEN trim(Tail(text))
    ELSE IF text[Len(text)] \in {" ", "\n"} THEN trim(SubSeq(text, 1, Len(text) - 1))
    ELSE text

RECURSIVE Number(_)
\* the value of a decimal numeral
Number(text) ==
    IF text = <<>> THEN 0
    ELSE 10 * Number(SubSeq(text, 1, Len(text) - 1))
         + (IF text[Len(text)] = "1" THEN 1 ELSE 2)

\* JSON.parse on the payloads of Lines: a numeral without leading zero is
\* parsed to its value, anything else throws
JSONparse(text) ==
    IF text # <<>> /\ \A i \in 1..Len(text) : text[i] \in {"1", "2"}
    THEN [ok |-> TRUE, value |-> Number(text)]
    ELSE [ok |-> FALSE, value |-> 0]

parseErrorRethrownMutant == TRUE

\* the catch clauses around JSON.parse and onProgress log the error and go on
parseErrorRethrown == FALSE

\* the body of the loop over the lines: a line with the prefix is parsed and
\* passed to onProgress; out is the records passed so far and whether an
\* exception left the loop
processLine(line, out) ==
    IF startsWith(line, DataPrefix)
    THEN LET data == JSONparse(slice(line, 6))
         IN  IF data.ok
             THEN [out EXCEPT !.delivered = Append(@, data.value)]
             ELSE [out EXCEPT !.threw = parseErrorRethrown]
    ELSE out

RECURSIVE processLines(_, _)
\* for (const line of lines)
processLines(lines, out) ==
    IF lines = <<>> \/ out.threw
    THEN out
    ELSE processLines(Tail(lines), processLine(lines[1], out))

incompleteLineMutant(lines) == <<>>

\* buffer = lines.pop() || ''
incompleteLine(lines) == lines[Len(lines)]

\* one turn of the reader loop: reader.read() returns the next chunk, of any
\* size
ReaderRead ==
    /\ readerState = "reading"
    /\ \E n \in 1..(Len(streamBytes) - bytesRead) :
         LET value == SubSeq(streamBytes, bytesRead + 1, bytesRead + n)
             lines == split(buffer \o value)
             out == processLines(SubSeq(lines, 1, Len(lines) - 1),
                                 [delivered |-> delivered, threw |-> FALSE])
         IN  /\ bytesRead' = bytesRead + n
             /\ buffer' = incompleteLine(lines)
             /\ delivered' = out.delivered
             /\ readerState' = IF out.threw THEN "threw" ELSE "reading"
    /\ lastOp' = Did("read", "chunk")
    /\ UNCHANGED <<streamBytes, genVars, globalCss, edVars, wuVars, wumVars>>

\* reader.read() returns done: the rest of the buffer is processed and
\* generateWebsite returns
ReaderDone ==
    /\ readerState = "reading"
    /\ bytesRead = Len(streamBytes)
    /\ LET out == IF trim(buffer) # <<>> /\ startsWith(buffer, DataPrefix)
                  THEN processLine(buffer, [delivered |-> delivered, threw |-> FALSE])
                  ELSE [delivered |-> delivered, threw |-> FALSE]
       IN  /\ delivered' = out.delivered
           /\ readerState' = IF out.threw THEN "threw" ELSE "returned"
    /\ lastOp' = Did("read", "done")
    /\ UNCHANGED <<streamBytes, bytesRead, buffer, genVars, globalCss, edVars,
                   wuVars, wumVars>>

\* reader.read() rejects: the outer catch logs and rethrows
ReaderFails ==
    /\ readerState = "reading"
    /\ readerState' = "threw"
    /\ lastOp' = Did("read", "rejected")
    /\ UNCHANGED <<streamBytes, bytesRead, buffer, delivered, genVars, globalCss,
                   edVars, wuVars, wumVars>>

\* the reader loop at its start, on any response body
InitSse ==
    /\ Constructed
    /\ streamBytes \in Bodies
    /\ bytesRead = 0
    /\ buffer = <<>>
    /\ delivered = <<>>
    /\ readerState = "reading"

NextSse ==
    \/ ReaderRead
    \/ ReaderDone
    \/ ReaderFails

SpecSse == InitSse /\ [][NextSse]_vars

\* --------------------------------------------------- the progress animation
\* quarters of a percent in one percent
Scale == 4

Min(a, b) == IF a < b THEN a ELSE b

\* `const speed = fast ? 50 : 100`, the period of the timer in ms
speed(fast) == IF fast THEN 50 ELSE 100

\* `const increment = fast ? 2 : 0.5`, in quarters of a percent
increment(fast) == IF fast THEN 2 * Scale ELSE Scale \div 2

belowTargetMutant(current, target) == current # target * Scale

\* `this.currentProgress < this.targetProgress`
belowTarget(current, target) == current < target * Scale

nextProgressHalving(current, target, fast) ==
    current + (target * Scale - current) \div 2

\* the value one tick gives currentProgress while it is below the target
nextProgress(current, target, fast) ==
    LET remaining == target * Scale - current
        step == IF remaining > 10 * Scale THEN increment(fast) ELSE increment(fast) \div 2
    IN  Min(current + step, target * Scale)

\* the callback of the timer started by animateProgressTo
ProgressTick ==
    /\ progressInterval # "none"
    /\ IF belowTarget(currentProgress, targetProgress)
       THEN /\ currentProgress' = nextProgress(currentProgress, targetProgress,
                                               progressInterval = "fast")
            /\ lastOp' = Did("tick", "advanced")
            /\ UNCHANGED <<targetProgress, progressInterval>>
       ELSE /\ progressInterval' = "none"
            /\ lastOp' = Did("tick", "stopped")
            /\ UNCHANGED <<currentProgress, targetProgress>>
    /\ UNCHANGED <<isGenerating, convVars, artVars, tplVars, netVars, uiVars, globalCss, edVars,
                   wuVars, wumVars, sseVars>>

\* the events the progress animation is driven by: every step report of the
\* catalogue in any order, the final event, a failure and a plan approval
ProgressEvents ==
    { Event(st, sp, "none", "none", <<>>, "none", NoData) :
          st \in {"in_progress", "completed"},
          sp \in chatPhases \cup progressPhases \cup {"complete"} }
    \cup { Event("failed", "planning", "none", "none", <<>>, "none", NoData),
           Event("awaiting_approval", "planning", "none", "t1", <<>>, "none", NoData) }

\* handleStreamEvent on one of these events, once a call has been started
ProgressEvent ==
    /\ lastOp.op # "constructor"
    /\ \E event \in ProgressEvents :
          /\ handleStreamEvent(event)
          /\ lastOp' = Op("handleStreamEvent", event.status, event.step, "none")
    /\ UNCHANGED <<isGenerating, netVars, globalCss, wuVars, wumVars, sseVars>>

\* what a call does to the progress display before its request is sent:
\* showGenerationUI, called by startWebsiteGeneration for a new generation
\* and by submitPlanApproval, which first hides the plan approval section
ProgressRestart ==
    /\ \E isFollowUp \in BOOLEAN :
          /\ isFollowUp => approvalShown
          /\ approvalShown' = IF isFollowUp THEN FALSE ELSE approvalShown
          /\ lastOp' = Did("showGenerationUI", IF isFollowUp THEN "resume" ELSE "start")
    /\ showGenerationUI
    /\ UNCHANGED <<isGenerating, convVars, artVars, tplVars, netVars, clarificationShown,
                   globalCss, edVars, wuVars, wumVars, sseVars>>

NextProg ==
    \/ ProgressTick
    \/ ProgressEvent
    \/ ProgressRestart

SpecProg == Init /\ [][NextProg]_vars

\* the timer keeps firing its callback as long as the interval is set
SpecProgLive == SpecProg /\ WF_vars(ProgressTick)

\* ------------------------------------------------------------------ properties
SendNames == {"handleSendUpdate", "handleTabChatSend"}
ApplyNames == {"applyPendingUpdate", "applyTabUpdate"}
RejectNames == {"rejectPendingUpdate", "rejectTabUpdate"}
StartNames == {"startWebsiteGeneration", "submitAnswer", "handleReadyToGenerate"}

\* C1: when an update request of an update manager succeeds, the page mapping
\* generatedPages is exactly what it was before; it changes only once the
\* user applies the update.  (SpecWum: _handleSend merges the result at once.)
C1_PagesKeptUntilApply ==
    [][lastOp'.res = "proposed" => generatedPages' = generatedPages]_vars

\* C2: applying a pending update sets every page named in updated_pages to the
\* updated value, leaves every other page unchanged, overwrites the global
\* style if and only if updated_global_css is present, and clears the pending
\* update.
C2_ApplyMergesPagesAndStyle ==
    [][lastOp'.res = "applied" =>
        /\ \A p \in PageNames :
              generatedPages'[p] = IF pendingUpdate.updated_pages[p] \in Htmls
                                   THEN pendingUpdate.updated_pages[p]
                                   ELSE generatedPages[p]
        /\ edStyle' = IF pendingUpdate.updated_global_css # "none"
                      THEN pendingUpdate.updated_global_css
                      ELSE edStyle
        /\ pendingUpdate' = NullUpdate]_vars

\* C3: from the step that stores a proposed update up to and including its
\* rejection no step changes the pages or the global style, and the rejection
\* clears the pending update: after a reject both are as before the propose.
C3_RejectRestores ==
    [][(/\ lastOp'.res = "proposed" \/ pendingUpdate # NullUpdate
        /\ pendingUpdate' # NullUpdate \/ lastOp'.res = "rejected")
       => /\ generatedPages' = generatedPages
          /\ edStyle' = edStyle
          /\ globalCss' = globalCss
          /\ lastOp'.res = "rejected" => pendingUpdate' = NullUpdate]_vars

C3_Witness ==
    /\ lastOp.op \in RejectNames
    /\ lastOp.res = "rejected"
    /\ pendingUpdate = NullUpdate
    /\ generatedPages["home"] = "old"

\* C4: an apply or a reject with no pending update outstanding is refused and
\* changes no state (pages, global style, pending update, update history); an
\* apply or reject that directly follows a completed apply or reject is
\* refused.
C4_NoPendingUpdateRefused ==
    [][lastOp'.op \in ApplyNames \cup RejectNames =>
        /\ pendingUpdate = NullUpdate =>
              /\ lastOp'.res = "nopending"
              /\ UNCHANGED <<genVars, globalCss, edVars, wuVars>>
        /\ lastOp.res \in {"applied", "rejected"} => lastOp'.res = "nopending"]_vars

C4_Witness ==
    /\ lastOp.op \in ApplyNames
    /\ lastOp.res = "nopending"
    /\ updateHistory # <<>>

\* C5: a pending update stored by a successful propose is removed or replaced
\* only by an apply or a reject, never by a later propose.
C5_PendingOnlyResolved ==
    [][(pendingUpdate # NullUpdate /\ pendingUpdate' # pendingUpdate)
       => lastOp'.res \in {"applied", "rejected"}]_vars

\* C6: one WebsiteUpdater has at most one update request in flight over both
\* entry points, and a propose made while a request is in flight issues no
\* request and changes neither the pending update nor the artifact.
C6_SingleUpdateInFlight ==
    [][/\ wuInFlight' <= 1
       /\ (/\ lastOp'.op \in SendNames
           /\ lastOp'.res \notin {"proposed", "failed"}
           /\ wuInFlight > 0)
          => UNCHANGED <<wuCalls, pendingUpdate, artVars, edVars, updateHistory>>]_vars

C6_Witness ==
    /\ lastOp = Did("handleTabChatSend", "busy")
    /\ wuCalls["panel"] = 1
    /\ wuCalls["tab"] = 0

\* C7: at most one generation request is in flight at any time over
\* startWebsiteGeneration, submitAnswer, handleReadyToGenerate and
\* submitPlanApproval.
C7_SingleGenerationInFlight == InFlight <= 1

\* C8: a startWebsiteGeneration call made while isGenerating is true issues no
\* request and leaves the thread id, the message history, the progress values,
\* the awaiting flag and the artifact unchanged.
C8_StartWhileGeneratingRejected ==
    [][(lastOp'.op \in StartNames /\ isGenerating)
       => /\ lastOp'.res \in {"busy", "invalid"}
          /\ UNCHANGED <<isGenerating, convVars, artVars, progVars, netVars>>]_vars

C8_Witness ==
    /\ lastOp = Did("startWebsiteGeneration", "busy")
    /\ isGenerating
    /\ InFlight = 1

\* C9: the request sent by a resume after an interrupt (submitAnswer,
\* handleReadyToGenerate while awaiting input, submitPlanApproval) carries the
\* stored thread id and the stored history plus exactly one new user message.
C9_ResumeAppendsOneMessage ==
    [][(/\ \/ lastOp'.op \in {"submitAnswer", "submitPlanApproval"}
           \/ lastOp'.op = "handleReadyToGenerate" /\ isAwaitingInput
        /\ lastOp'.res = "sent")
       => /\ lastOp'.req.thread_id = currentThreadId
          /\ Len(lastOp'.req.messages) = Len(conversationMessages) + 1
          /\ SubSeq(lastOp'.req.messages, 1, Len(conversationMessages))
                = conversationMessages
          /\ lastOp'.req.messages[Len(lastOp'.req.messages)].role = "user"]_vars

\* C10: handling a stream event with status awaiting_input never changes the
\* artifact and always leaves the generator out of the generating state and
\* awaiting clarification, with the questions and thread id of the event
\* stored.
C10_AwaitingInputInterrupts ==
    [][(lastOp'.op = "handleStreamEvent" /\ lastOp'.res = "awaiting_input")
       => /\ UNCHANGED artVars
          /\ ~isGenerating'
          /\ isAwaitingInput'
          /\ questions' = "q1"
          /\ currentThreadId' = lastOp'.tid]_vars

\* the outcomes under which a handler has called handleGenerationError, which
\* alerts "Website generation failed: ..."
GenerationErrorSurfaced(o) == o.res \in {"error", "failed"}

\* the event handled last was an interrupt
InterruptHandled(o) ==
    /\ o.op = "handleStreamEvent"
    /\ \/ o.res = "awaiting_approval"
       \/ o.res = "awaiting_input" /\ o.arg = "false"

\* C11: once an interrupt (awaiting_input or awaiting_approval) has been
\* handled, a later event of the same stream changes neither the progress
\* target nor the conversation context nor the artifact.
C11_InterruptIsTerminal ==
    [][(InterruptHandled(lastOp) /\ InFlight = 1 /\ lastOp'.op = "handleStreamEvent")
       => UNCHANGED <<targetProgress, convVars, artVars>>]_vars

\* C12: handling a failed event surfaces the failure and leaves the stored
\* artifact (pages, image urls, plan, folder path, saved files) untouched.
C12_FailedEventKeepsArtifact ==
    [][(lastOp'.op = "handleStreamEvent" /\ lastOp'.res = "failed")
       => GenerationErrorSurfaced(lastOp') /\ UNCHANGED artVars]_vars

\* C13: when the generation request fails before streaming starts the error
\* is surfaced, the generator is not generating afterwards, and the stored
\* artifact, thread id and messages are unchanged.
C13_ConnectionErrorKeepsState ==
    [][(lastOp'.op = "fetch" /\ lastOp'.res = "error")
       => /\ GenerationErrorSurfaced(lastOp')
          /\ InFlight = 1 => ~isGenerating'
          /\ UNCHANGED <<artVars, currentThreadId, conversationMessages>>]_vars

\* C14: a stream that ends without a complete event and without an interrupt
\* (here: right after it was opened) ends as a surfaced failure.
C14_IncompleteStreamFails ==
    [][(lastOp = Did("fetch", "ok") /\ InFlight = 1 /\ lastOp'.op = "stream")
       => GenerationErrorSurfaced(lastOp')]_vars

\* C15: handling a complete event that carries data sets the artifact from
\* the data: pages, image urls, plan, folder path and saved files.
C15_CompleteSetsArtifact ==
    [][(lastOp'.op = "handleStreamEvent" /\ lastOp'.res = "completed"
        /\ lastOp'.arg \in {"plan1", "plan2"})
       => \E data \in DataSet :
            /\ data.present /\ data.plan = lastOp'.arg
            /\ generatedPages' = data.pages
            /\ generatedImageUrls' = data.image_urls
            /\ generatedPlan' = data.plan
            /\ folderPath' = data.folder_path
            /\ savedFiles' = data.saved_files]_vars

C15_Witness ==
    /\ lastOp.op = "handleStreamEvent"
    /\ lastOp.arg = "plan2"
    /\ generatedPages = Data2.pages
    /\ generatedPages["home"] = "old"
    /\ generatedPlan = "plan2"

\* C16: generatedPages is changed only by the completion of a generation (and
\* by the apply of a pending update); every other operation leaves it
\* unchanged.
C16_PagesChangedOnlyByCompletion ==
    [][generatedPages' # generatedPages
       => \/ lastOp'.op = "handleStreamEvent" /\ lastOp'.res = "completed"
          \/ lastOp'.res = "applied"]_vars

\* a record line that JSON.parse accepts
WellFormed(line) == startsWith(line, DataPrefix) /\ JSONparse(slice(line, 6)).ok

RECURSIVE ParsedRecords(_)
\* the payloads of the well-formed record lines, in order
ParsedRecords(lines) ==
    IF lines = <<>> THEN <<>>
    ELSE (IF WellFormed(lines[1]) THEN <<JSONparse(slice(lines[1], 6)).value>> ELSE <<>>)
         \o ParsedRecords(Tail(lines))

\* the lines of the bytes read so far that are ended by a newline
CompleteLines ==
    LET lines == split(SubSeq(streamBytes, 1, bytesRead))
    IN  SubSeq(lines, 1, Len(lines) - 1)

\* C17: however the body is cut into chunks, the records passed to onProgress
\* are the parseable 'data: ' lines of the body, each once and in order: while
\* the body is being read those of the lines already ended by a newline, after
\* the end of the body those of all its lines.
C17_ChunkingDoesNotMatter ==
    /\ readerState \in {"reading", "threw"} => delivered = ParsedRecords(CompleteLines)
    /\ readerState = "returned" => delivered = ParsedRecords(split(streamBytes))

C17_Witness ==
    /\ streamBytes = Join(<<DataPrefix \o <<"1">>, DataPrefix \o <<"1", "2">>>>)
    /\ readerState = "reading"
    /\ bytesRead = 15
    /\ buffer = DataPrefix \o <<"1">>
    /\ delivered = <<1>>

\* C18: a record that JSON.parse rejects does not end the call with an
\* exception, and every well-formed record of the body, also one after a
\* malformed record, has been delivered when the call returns.
C18_MalformedRecordSkipped ==
    /\ (lastOp.op = "read" /\ lastOp.res # "rejected") => readerState # "threw"
    /\ (lastOp = Did("read", "done")) =>
          LET lines == split(streamBytes)
          IN  /\ readerState = "returned"
              /\ Len(delivered) = Cardinality({j \in 1..Len(lines) : WellFormed(lines[j])})
              /\ \A j \in 1..Len(lines) :
                    WellFormed(lines[j]) =>
                       \E k \in 1..Len(delivered) :
                           delivered[k] = JSONparse(slice(lines[j], 6)).value

C18_Witness ==
    /\ streamBytes = Join(<<DataPrefix \o <<"{">>, DataPrefix \o <<"1">>>>)
    /\ readerState = "returned"
    /\ delivered = <<1>>

\* C19: an exception raised while the event handler processes a well-formed
\* record (a complete event without data) is surfaced as a failure.
C19_HandlerExceptionSurfaced ==
    [][(lastOp'.op = "handleStreamEvent" /\ lastOp'.res = "completed"
        /\ lastOp'.arg = "nodata")
       => GenerationErrorSurfaced(lastOp')]_vars

NewStartSent ==
    /\ lastOp'.res = "sent"
    /\ \/ lastOp'.op = "startWebsiteGeneration"
       \/ lastOp'.op = "handleReadyToGenerate" /\ ~isAwaitingInput

\* the step is an accepted resume (answer, ready-to-generate follow-up, plan
\* approval or revision) that issued its request
ResumeSent ==
    /\ lastOp'.res = "sent"
    /\ \/ lastOp'.op \in {"submitAnswer", "submitPlanApproval"}
       \/ lastOp'.op = "handleReadyToGenerate" /\ isAwaitingInput

\* C21: the request of a new (non-follow-up) start carries no thread id and
\* an empty message history, and the stored context is reset, whatever a
\* previous job left behind.
C21_NewStartResetsContext ==
    [][NewStartSent =>
          /\ lastOp'.req.thread_id = "none"
          /\ lastOp'.req.messages = <<>>
          /\ currentThreadId' = "none"
          /\ conversationMessages' = <<>>]_vars

C21_Witness ==
    /\ lastOp.op = "startWebsiteGeneration"
    /\ lastOp.res = "sent"
    /\ lastOp.req.thread_id = "none"
    /\ questions = "q1"

IsPrefix(s, t) == Len(s) <= Len(t) /\ SubSeq(t, 1, Len(s)) = s

C24_ContextDiscardedAtEnd ==
    [][(lastOp'.op = "handleStreamEvent"
        /\ \/ lastOp'.res = "completed" /\ lastOp'.arg \in {"plan1", "plan2"}
           \/ lastOp'.res = "failed")
       => currentThreadId' = "none" /\ conversationMessages' = <<>>]_vars

\* C25: after an interrupt has been handled every stored message has the role
\* user or assistant.
C25_StoredMessagesHaveRoles ==
    InterruptHandled(lastOp) =>
        \A i \in 1..Len(conversationMessages) :
            conversationMessages[i].role \in {"user", "assistant"}

\* C26: within one job the progress value stays in [0,100] and never
\* decreases: it is lowered only by the start of a new job.
C26_ProgressMonotoneInJob ==
    [][/\ currentProgress' >= 0
       /\ currentProgress' <= 100 * Scale
       /\ currentProgress' < currentProgress
            => lastOp' = Did("showGenerationUI", "start")]_vars

\* C27: a call of animateProgressTo (by an event) leaves the progress value
\* as it is and no tick of the timer lowers it, whatever the target is.
C27_TicksNeverLower ==
    [][/\ lastOp'.op = "handleStreamEvent" => currentProgress' = currentProgress
       /\ lastOp'.op = "tick" => currentProgress' >= currentProgress
       /\ lastOp' = Did("tick", "advanced") => currentProgress' > currentProgress]_vars

C27_Witness ==
    /\ lastOp = Did("tick", "stopped")
    /\ targetProgress = 25
    /\ currentProgress > targetProgress * Scale

\* C28: in fast mode a tick far from the target advances by twice the base
\* increment of the normal mode, and the timer fires twice as often.
C28_FastDoublesRateAndFrequency ==
    [][(/\ lastOp' = Did("tick", "advanced")
        /\ progressInterval = "fast"
        /\ targetProgress * Scale - currentProgress > 10 * Scale)
       => /\ currentProgress' - currentProgress = 2 * increment(FALSE)
          /\ speed(FALSE) = 2 * speed(TRUE)]_vars


\* C29: applying and rejecting a pending update issue no request; an update
\* request is issued only by a send, one at a time.
C29_ApplyRejectIssueNoRequest ==
    [][/\ lastOp'.op \in ApplyNames \cup RejectNames
            => UNCHANGED <<wuCalls, wumCalls, genCalls>>
       /\ wuInFlight' > wuInFlight
            => /\ wuInFlight' = wuInFlight + 1
               /\ lastOp'.op \in SendNames
               /\ lastOp'.res = "sent"]_vars

C29_Witness ==
    /\ lastOp.op \in ApplyNames
    /\ lastOp.res = "applied"
    /\ Len(updateHistory) = 1
    /\ wuInFlight = 0

\* C30: a step issues at most one generation request, and only as an accepted
\* start or resume of the user; handling a failure issues none.
C30_OneRequestPerUserCall ==
    [][/\ InFlight' > InFlight
            => /\ InFlight' = InFlight + 1
               /\ lastOp'.res = "sent"
               /\ lastOp'.op \in StartNames \cup {"submitPlanApproval"}
       /\ GenerationErrorSurfaced(lastOp') => InFlight' <= InFlight]_vars

C30_Witness ==
    /\ lastOp = Did("fetch", "error")
    /\ InFlight = 0
    /\ ~isGenerating

\* C31: the page names are the same in generation and in editing: the page
\* payload of an update request has exactly the keys of generatedPages, and
\* an applied update of a generated page replaces that page in the page
\* mapping of the editor as well as in generatedPages.
C31_SameKeysInGenerationAndEditing ==
    [][/\ (lastOp'.op \in SendNames /\ lastOp'.res = "sent")
            => RequestKeys(requestPages') = Keys(generatedPages)
       /\ (lastOp'.op \in ApplyNames /\ lastOp'.res = "applied")
            => \A p \in Keys(pendingUpdate.updated_pages) \cap Keys(generatedPages) :
                  /\ generatedPages'[p] = pendingUpdate.updated_pages[p]
                  /\ currentPages'[p] = pendingUpdate.updated_pages[p]]_vars

\* C37: an update that is applied was computed from the pages that are
\* current when it is applied, and no apply runs while a request is in flight.
C37_AppliedFromCurrentPages ==
    [][(lastOp'.op \in ApplyNames /\ lastOp'.res = "applied")
       => /\ pendingBase = getCurrentPages
          /\ wuInFlight = 0]_vars

\* C38: after a successful apply the page mapping of the editor and
\* generatedPages have the same keys and, for every page of updated_pages,
\* the same html.
C38_EditorAgreesWithGeneratedPages ==
    [][(lastOp'.op \in ApplyNames /\ lastOp'.res = "applied")
       => /\ Keys(currentPages') = Keys(generatedPages')
          /\ \A p \in Keys(pendingUpdate.updated_pages) :
                currentPages'[p] = generatedPages'[p]]_vars

\* C39: an apply that throws leaves the pending update outstanding and
\* changes neither generatedPages nor the update history.
C39_FailedApplyHasNoEffect ==
    [][(lastOp'.op \in ApplyNames /\ lastOp'.res = "threw")
       => /\ pendingUpdate # NullUpdate
          /\ UNCHANGED <<pendingUpdate, generatedPages, updateHistory>>]_vars

C39_Witness ==
    /\ lastOp.op \in ApplyNames
    /\ lastOp.res = "threw"
    /\ Keys(pendingUpdate.updated_pages) # {}
    /\ Len(updateHistory) = 1

\* C40: a page an applied update wrote into generatedPages stays there through
\* applySelectedData: re-rendering with a data file does not revert the update.
C40_DataFileKeepsAppliedUpdate ==
    [][lastOp'.op = "applySelectedData"
       => \A p \in PageNames :
             generatedPages[p] = "new" => generatedPages'[p] = "new"]_vars

\* C34: isAwaitingInput is true exactly while an interrupt is unanswered:
\* handling an interrupt sets it, an accepted resume clears it, and it is
\* false after the final or the failed event has been handled.
C34_AwaitingInputWhileUnanswered ==
    [][/\ InterruptHandled(lastOp') => isAwaitingInput'
       /\ ResumeSent => ~isAwaitingInput'
       /\ (/\ lastOp'.op = "handleStreamEvent"
           /\ \/ lastOp'.res = "failed"
              \/ lastOp'.res = "completed" /\ lastOp'.arg \in {"plan1", "plan2"})
            => ~isAwaitingInput']_vars

\* C35: an answer that submitAnswer accepts (it hides the clarification
\* section) while no generation is in flight issues exactly one follow-up
\* request.
C35_AcceptedAnswerIsSent ==
    [][(/\ lastOp'.op = "submitAnswer"
        /\ ~clarificationShown'
        /\ ~isGenerating
        /\ InFlight = 0)
       => /\ lastOp'.res = "sent"
          /\ InFlight' = 1]_vars

\* C36: once an interrupt has been handled, an answer is never refused
\* because the interrupted call still holds isGenerating.
C36_ResumeNotBlockedByOpenStream ==
    [][(lastOp'.op = "submitAnswer" /\ isAwaitingInput)
       => lastOp'.res # "busy"]_vars

\* The generator with a network that settles: the response of the request of
\* startWebsiteGeneration arrives or the fetch rejects, and its stream ends or
\* fails.
NetworkSettles ==
    /\ WF_vars((FetchOk("start") \/ FetchFails("start")) /\ UNCHANGED sseVars)
    /\ WF_vars((StreamEnd("start") \/ StreamError("start")) /\ UNCHANGED sseVars)

SpecLive == Spec /\ NetworkSettles

\* C33: after a start that passed validation and the single-flight check,
\* isGenerating becomes false again once the request has ended, however it
\* ended.
C33_GeneratingEventuallyEnds == isGenerating ~> ~isGenerating

C33_Witness ==
    /\ lastOp = Did("stream", "error")
    /\ ~isGenerating
    /\ genCalls["start"] = [fetch |-> 0, stream |-> 0]

\* the final event (`completed` / `complete`) is the event handled last
FinalEventHandled == lastOp = Op("handleStreamEvent", "completed", "complete", "none")

\* C32: once the final event has been handled, and unless a later event or a
\* new call intervenes, the ticks of the timer bring the progress to exactly
\* 100 and the timer stops; on the way a tick adds 2 while more than 10 points
\* are left and 1 within the last 10 points, never passing 100.
C32_FinalEventReachesHundred ==
    /\ FinalEventHandled
         ~> \/ currentProgress = 100 * Scale /\ progressInterval = "none"
            \/ lastOp.op # "tick" /\ ~FinalEventHandled
    /\ [][(/\ lastOp' = Did("tick", "advanced")
           /\ targetProgress = 100
           /\ progressInterval = "fast")
          => currentProgress' =
                Min(currentProgress
                      + (IF 100 * Scale - currentProgress > 10 * Scale
                         THEN 2 * Scale ELSE Scale),
                    100 * Scale)]_vars

C32_Witness ==
    /\ lastOp = Did("tick", "stopped")
    /\ targetProgress = 100
    /\ currentProgress = 100 * Scale
    /\ progressInterval = "none"

=============================================================================
